---------------------------- MODULE Spec2Model ----------------------------
(***************************************************************************)
(* A model of the chunk distribution and retrieval protocol of             *)
(* distributed_storage.py: FilePartitioner (split / reassemble / verify),  *)
(* StorageNode (store / retrieve / list / delete over an in-memory index   *)
(* and a chunk directory) and DistributedStorageClient (add_node, upload,  *)
(* download, delete), which talks to the nodes one request at a time.      *)
(***************************************************************************)
EXTENDS Integers, Sequences, FiniteSets, TLC

(***************************************************************************)
(* Bounds of the model.                                                    *)
(***************************************************************************)
MaxNodes == 3        \* registrations in the client's pool
MaxFileLen == 2      \* bytes in an uploaded file
MaxChunkSize == 2    \* chunk_size ranges over 1..MaxChunkSize
MaxReplication == 2  \* replication_factor ranges over 1..MaxReplication
MaxOps == 3          \* client commands in one session
MaxFaults == 1       \* outages / corruptions / restarts in one session
MaxPartLen == 5      \* bytes in a file given to the partitioner alone
MaxPartChunk == 3    \* chunk sizes 1..MaxPartChunk given to the partitioner alone
MaxRequests == 3     \* requests served by a storage node on its own
MaxHandlers == 3     \* connections a storage node handles side by side
MaxMessage == 5      \* bytes in a pickled request or response on the wire
RecvSize == 2        \* bytes one recv returns at most (the code's 4096, scaled)

Byte == {0, 1}
FileNames == {"a"}
Dests == {"out"}
Servers == 1 .. MaxNodes
NoFile == [exists |-> FALSE, data |-> <<>>]

RECURSIVE SeqsUpTo(_, _)
SeqsUpTo(S, n) ==
  IF n = 0 THEN {<<>>}
  ELSE LET shorter == SeqsUpTo(S, n - 1)
       IN  shorter \cup {Append(s, x) : s \in {t \in shorter : Len(t) = n - 1}, x \in S}

Contents == SeqsUpTo(Byte, MaxFileLen)

Min(a, b) == IF a < b THEN a ELSE b

Range(s) == {s[x] : x \in DOMAIN s}

EmptyMap == [x \in {} |-> {}]

(***************************************************************************)
(* FilePartitioner                                                         *)
(***************************************************************************)

\* hashlib.sha256(data).hexdigest(): a collision-free digest of the bytes,
\* here the number whose base-(|Byte|+1) digits are 1 followed by byte+1.
RECURSIVE Sha256(_)
Sha256(data) ==
  IF data = <<>> THEN 1
  ELSE Sha256(SubSeq(data, 1, Len(data) - 1)) * (Cardinality(Byte) + 1)
         + data[Len(data)] + 1

\* f.read(n) at offset pos (0-based): the next at most n bytes.
ReadAt(content, pos, n) == SubSeq(content, pos + 1, Min(pos + n, Len(content)))

\* partition_file's loop: read chunk_size bytes until a read returns nothing.
RECURSIVE PartitionFrom(_, _, _, _)
PartitionFrom(content, size, pos, chunk_id) ==
  LET chunk_data == ReadAt(content, pos, size)
  IN  IF chunk_data = <<>> THEN <<>>
      ELSE <<[chunk_id |-> chunk_id, chunk_data |-> chunk_data,
              chunk_hash |-> Sha256(chunk_data)]>>
           \o PartitionFrom(content, size, pos + Len(chunk_data), chunk_id + 1)

partition_file(content, size) == PartitionFrom(content, size, 0, 0)

\* sorted(chunks, key=lambda x: x[0]): a stable insertion sort on chunk_id.
RECURSIVE InsertSorted(_, _)
InsertSorted(sorted, c) ==
  IF sorted = <<>> THEN <<c>>
  ELSE IF sorted[Len(sorted)].chunk_id <= c.chunk_id THEN Append(sorted, c)
  ELSE Append(InsertSorted(SubSeq(sorted, 1, Len(sorted) - 1), c), sorted[Len(sorted)])

RECURSIVE SortById(_)
SortById(chunks) ==
  IF chunks = <<>> THEN <<>>
  ELSE InsertSorted(SortById(SubSeq(chunks, 1, Len(chunks) - 1)), chunks[Len(chunks)])

RECURSIVE Concat(_)
Concat(chunks) ==
  IF chunks = <<>> THEN <<>>
  ELSE chunks[1].chunk_data \o Concat(Tail(chunks))

\* Mutant of reassemble_file: the chunks are written in arrival order.
ReassembleUnsorted(chunks) == Concat(chunks)

\* reassemble_file: the bytes written to output_path.
reassemble_file(chunks) == Concat(SortById(chunks))

verify_chunk(chunk_data, expected_hash) == Sha256(chunk_data) = expected_hash


(***************************************************************************)
(* State                                                                   *)
(***************************************************************************)
VARIABLES
  replication_factor,  \* DistributedStorageClient.replication_factor
  chunk_size,          \* FilePartitioner.chunk_size
  nodes,               \* client pool: sequence of [node_id, addr]
  file_mapping,        \* client: filename -> (chunk_id -> sequence of node ids)
  metadata,            \* per server: filename -> (chunk_id -> [chunk_hash, chunk_path])
  disk,                \* per server: chunk_path -> bytes of the chunk file
  health,              \* per server: "up", "down" (refuses), "slow" (answers too late)
  pc,                  \* the client's position: "idle", "upload", "download", "delete"
  loc,                 \* the running command's local variables
  ret,                 \* the last command and what it returned
  out,                 \* the local files downloads write to: output_path -> bytes
  reqlog,              \* the requests the running (or last) command sent, in order
  uploaded,            \* history: filename -> its last upload: the bytes, whether every
                       \*   STORE was acknowledged, the servers corrupted or restarted
                       \*   since, and those of them that were restarted
  quiet,               \* history: no fault since the last command began
  outBefore,           \* history: the local files as the last command found them
  nops,                \* commands started
  nfaults,             \* faults injected
  part,                \* a FilePartitioner used on its own: input, chunks, output
  served,              \* a StorageNode used on its own: the requests it has served
  threads,             \* a StorageNode's handle_client threads running side by side,
                       \*   and the directories under its storage_dir
  wire                 \* one connection between send_request and handle_client: the
                       \*   bytes sent, arrived and received in each direction

clientVars == <<replication_factor, chunk_size, nodes, file_mapping, health, pc, loc,
                ret, out, reqlog, uploaded, quiet, outBefore, nops, nfaults>>

vars == <<clientVars, metadata, disk, part, served, threads, wire>>

(***************************************************************************)
(* StorageNode: the handlers, on one server's index and chunk directory.   *)
(***************************************************************************)

\* storage_dir / filename / f"chunk_{chunk_id}.dat"
ChunkPath(filename, chunk_id) == <<filename, chunk_id>>

ErrorResponse(message) ==
  [status |-> "error", message |-> message, chunk_data |-> <<>>, chunk_hash |-> 0]

\* store_chunk: the index after the chunk file is written.
StoreMetadata(md, filename, chunk_id, chunk_hash) ==
  LET old == IF filename \in DOMAIN md THEN md[filename] ELSE EmptyMap
      entry == [chunk_hash |-> chunk_hash, chunk_path |-> ChunkPath(filename, chunk_id)]
  IN  [f \in DOMAIN md \cup {filename} |->
         IF f = filename
         THEN [c \in DOMAIN old \cup {chunk_id} |-> IF c = chunk_id THEN entry ELSE old[c]]
         ELSE md[f]]

\* store_chunk: open(chunk_path, 'wb'); f.write(chunk_data)
StoreDisk(dk, filename, chunk_id, chunk_data) ==
  LET path == ChunkPath(filename, chunk_id)
  IN  [p \in DOMAIN dk \cup {path} |-> IF p = path THEN chunk_data ELSE dk[p]]

\* What a write that raised has put in the file: open(chunk_path, 'wb') has
\* truncated it and f.write stopped short, so a proper prefix of chunk_data.
PartialWrites(chunk_data) ==
  {SubSeq(chunk_data, 1, n) : n \in 0 .. Len(chunk_data) - 1}

\* store_chunk when mkdir, open or write raises: the chunk directory is as it
\* was (the failure came before open) or the chunk file holds a partial write.
StoreFailures(dk, filename, chunk_id, chunk_data) ==
  {dk} \cup {StoreDisk(dk, filename, chunk_id, written) :
               written \in PartialWrites(chunk_data)}

StoreResponse(chunk_id) ==
  [status |-> "success", message |-> "Chunk stored",
   chunk_data |-> <<>>, chunk_hash |-> 0]

\* retrieve_chunk
retrieve_chunk(md, dk, filename, chunk_id) ==
  IF filename \notin DOMAIN md \/ chunk_id \notin DOMAIN md[filename]
  THEN ErrorResponse("Chunk not found")
  ELSE LET entry == md[filename][chunk_id]
       IN  IF entry.chunk_path \notin DOMAIN dk
           THEN ErrorResponse("No such file")
           ELSE [status |-> "success", message |-> "",
                 chunk_data |-> dk[entry.chunk_path], chunk_hash |-> entry.chunk_hash]

\* list_files: filename -> chunk ids
list_files(md) == [f \in DOMAIN md |-> DOMAIN md[f]]

\* delete_file: the chunk files the index names are removed one by one ...
DeleteDisk(md, dk, filename) ==
  LET gone == {md[filename][c].chunk_path : c \in DOMAIN md[filename]}
  IN  [p \in DOMAIN dk \ gone |-> dk[p]]

\* ... then file_dir.rmdir(), which raises when the directory still holds a
\* file (one the index does not name) ...
RmdirFails(md, dk, filename) ==
  \E p \in DOMAIN DeleteDisk(md, dk, filename) : p[1] = filename

\* ... and only then is the index entry dropped.
DeleteMetadata(md, dk, filename) ==
  IF RmdirFails(md, dk, filename) THEN md
  ELSE [f \in DOMAIN md \ {filename} |-> md[f]]

DeleteResponse(md, dk, filename) ==
  IF filename \notin DOMAIN md THEN ErrorResponse("File not found")
  ELSE IF RmdirFails(md, dk, filename) THEN ErrorResponse("Directory not empty")
  ELSE [status |-> "success", message |-> "File deleted",
        chunk_data |-> <<>>, chunk_hash |-> 0]

(***************************************************************************)
(* DistributedStorageClient                                                *)
(***************************************************************************)

\* send_request: the handler runs when the server accepts the connection ...
Serves(s) == health[s] \in {"up", "slow"}
\* ... and the client gets its response unless connect or recv times out or
\* fails, which send_request turns into an error response.
Answers(s) == health[s] = "up"

CommError == ErrorResponse("Node communication error")

\* next((n for n in self.nodes if n['node_id'] == node_id), None): the pool
\* index of the first registration with that id, 0 for None.
FindNode(node_id) ==
  IF \E x \in 1..Len(nodes) : nodes[x].node_id = node_id
  THEN CHOOSE x \in 1..Len(nodes) :
         /\ nodes[x].node_id = node_id
         /\ \A y \in 1..(x - 1) : nodes[y].node_id # node_id
  ELSE 0

\* num_replicas = min(self.replication_factor, len(self.nodes))
NumReplicas == Min(replication_factor, Len(nodes))

\* Mutants of TargetIndex: every replica on the chunk's first node; the
\* remainder taken modulo the number of replicas instead of the pool size.
TargetIndexSameNode(chunk_id, i) == (chunk_id % Len(nodes)) + 1

TargetIndexModReplicas(chunk_id, i) ==
  ((chunk_id + i) % Min(replication_factor, Len(nodes))) + 1

\* target_nodes: pool indices (1-based) of self.nodes[(chunk_id + i) % len(self.nodes)]
TargetIndex(chunk_id, i) == ((chunk_id + i) % Len(nodes)) + 1

TargetNodes(chunk_id) == [i \in 1..NumReplicas |-> TargetIndex(chunk_id, i - 1)]

IdleLoc ==
  [filename |-> "", chunks |-> <<>>, k |-> 0, i |-> 0, stored_nodes |-> <<>>,
   output_path |-> ""]

NoRet == [op |-> "none", filename |-> "", output_path |-> "", val |-> FALSE]

Returned(op, filename, output_path, val) ==
  [op |-> op, filename |-> filename, output_path |-> output_path, val |-> val]

NoPart ==
  [pc |-> "off", content |-> <<>>, size |-> 1, chunks |-> <<>>, arrived |-> <<>>,
   out |-> NoFile, raised |-> "none"]

NoRequest ==
  [command |-> "none", filename |-> "", chunk_id |-> 0, chunk_data |-> <<>>,
   chunk_hash |-> 0]

NoResponse == [status |-> "none", message |-> "", chunk_data |-> <<>>, chunk_hash |-> 0]

NotServing ==
  [count |-> 0, request |-> NoRequest, response |-> NoResponse, files |-> EmptyMap,
   previous |-> NoRequest, previous_status |-> "none", before |-> <<EmptyMap, EmptyMap>>,
   written |-> EmptyMap]

IdleThread ==
  [pc |-> "idle", request |-> NoRequest, response |-> NoResponse, sent |-> 0,
   closed |-> FALSE, todo |-> {}, size |-> 0, detached |-> FALSE, files |-> EmptyMap]

NoThreads == [dirs |-> {}, run |-> [t \in 1 .. MaxHandlers |-> IdleThread]]

\* No connection yet.  Bytes are counted, not kept: a message is the number
\* of bytes pickle.dumps gave, and what a receiver holds is a prefix of it.
NoWire ==
  [client |-> "idle", node |-> "idle",
   request |-> 0, request_flight |-> 0, request_arrived |-> 0, node_data |-> 0,
   response |-> 0, response_flight |-> 0, response_arrived |-> 0, client_data |-> 0,
   client_closed |-> FALSE, node_closed |-> FALSE,
   acted |-> FALSE, status |-> "none", returned |-> "none"]

ClientStart ==
  /\ nodes = <<>>
  /\ file_mapping = EmptyMap
  /\ metadata = [s \in Servers |-> EmptyMap]
  /\ disk = [s \in Servers |-> EmptyMap]
  /\ health = [s \in Servers |-> "up"]
  /\ pc = "idle"
  /\ loc = IdleLoc
  /\ ret = NoRet
  /\ out = [d \in Dests |-> NoFile]
  /\ reqlog = <<>>
  /\ uploaded = EmptyMap
  /\ quiet = TRUE
  /\ outBefore = [d \in Dests |-> NoFile]
  /\ nops = 0
  /\ nfaults = 0

Init ==
  /\ replication_factor \in 1..MaxReplication
  /\ chunk_size \in 1..MaxChunkSize
  /\ ClientStart
  /\ part = NoPart
  /\ served = NotServing
  /\ threads = NoThreads
  /\ wire = NoWire


\* add_node, called for each entry of the configuration before the first
\* command; the k-th registration gives the address of server k.  Ids are
\* not checked: Next registers the next unused number, or 0 once more.
AddNode(node_id) ==
  /\ pc = "idle"
  /\ nops = 0
  /\ Len(nodes) < MaxNodes
  /\ nodes' = Append(nodes, [node_id |-> node_id, addr |-> Len(nodes) + 1])
  /\ UNCHANGED <<part, served, threads, wire, replication_factor, chunk_size,
                 file_mapping, metadata, disk,
                 health, pc, loc, ret, out, reqlog, uploaded, quiet, outBefore, nops, nfaults>>

(***************************************************************************)
(* The environment: outages, slow servers, corrupted chunk files, restarts *)
(***************************************************************************)
SetHealth(s, h) ==
  /\ nfaults < MaxFaults
  /\ s \in 1..Len(nodes)
  /\ h # health[s]
  /\ health' = [health EXCEPT ![s] = h]
  /\ nfaults' = nfaults + 1
  /\ quiet' = FALSE
  /\ UNCHANGED <<part, served, threads, wire, replication_factor, chunk_size,
                 nodes, file_mapping, metadata, disk,
                 pc, loc, ret, out, reqlog, uploaded, outBefore, nops>>

Tamper(s) ==
  [f \in DOMAIN uploaded |-> [uploaded[f] EXCEPT !.tampered = @ \cup {s}]]

\* The bytes of a chunk file change behind the node's back: the first byte
\* flips, or the last byte is lost.
Damaged(data) ==
  IF data = <<>> THEN {}
  ELSE {[data EXCEPT ![1] = 1 - data[1]], SubSeq(data, 1, Len(data) - 1)}

Corrupt(s, path, data) ==
  /\ nfaults < MaxFaults
  /\ path \in DOMAIN disk[s]
  /\ data \in Damaged(disk[s][path])
  /\ disk' = [disk EXCEPT ![s] = [disk[s] EXCEPT ![path] = data]]
  /\ uploaded' = Tamper(s)
  /\ quiet' = FALSE
  /\ nfaults' = nfaults + 1
  /\ UNCHANGED <<part, served, threads, wire, replication_factor, chunk_size,
                 nodes, file_mapping, metadata,
                 health, pc, loc, ret, out, reqlog, outBefore, nops>>

\* The node process is started again: StorageNode.__init__ begins with an
\* empty index, the chunk files stay.
Restart(s) ==
  /\ nfaults < MaxFaults
  /\ metadata[s] # EmptyMap
  /\ metadata' = [metadata EXCEPT ![s] = EmptyMap]
  /\ uploaded' = [f \in DOMAIN uploaded |->
                    [Tamper(s)[f] EXCEPT !.restarted = @ \cup {s}]]
  /\ quiet' = FALSE
  /\ nfaults' = nfaults + 1
  /\ UNCHANGED <<part, served, threads, wire, replication_factor, chunk_size,
                 nodes, file_mapping, disk,
                 health, pc, loc, ret, out, reqlog, outBefore, nops>>

(***************************************************************************)
(* upload_file                                                             *)
(***************************************************************************)
LogEntry(command, node, chunk_id, status) ==
  [command |-> command, node |-> node, chunk_id |-> chunk_id, status |-> status]

UploadBegin(filename, content) ==
  /\ pc = "idle"
  /\ nops < MaxOps
  /\ nops' = nops + 1
  /\ reqlog' = <<>>
  /\ quiet' = TRUE
  /\ outBefore' = out
  /\ IF nodes = <<>>
     THEN /\ ret' = Returned("upload", filename, "", FALSE)
          /\ UNCHANGED <<file_mapping, pc, loc, uploaded>>
     ELSE /\ file_mapping' = [f \in DOMAIN file_mapping \cup {filename} |->
                                IF f = filename THEN EmptyMap ELSE file_mapping[f]]
          /\ loc' = [IdleLoc EXCEPT !.filename = filename,
                                    !.chunks = partition_file(content, chunk_size),
                                    !.k = 1]
          /\ pc' = "upload"
          /\ uploaded' = [f \in DOMAIN uploaded \cup {filename} |->
                            IF f = filename
                            THEN [content |-> content, acked |-> TRUE, tampered |-> {},
                                  restarted |-> {}]
                            ELSE uploaded[f]]
          /\ UNCHANGED ret
  /\ UNCHANGED <<part, served, threads, wire, replication_factor, chunk_size,
                 nodes, metadata, disk, health,
                 out, nfaults>>

\* Mutant of UploadStore: a STORE that was not acknowledged is sent again
\* to the same node.
UploadStoreRetries ==
  /\ pc = "upload"
  /\ loc.k <= Len(loc.chunks)
  /\ loc.i < NumReplicas
  /\ LET chunk == loc.chunks[loc.k]
         idx == TargetNodes(chunk.chunk_id)[loc.i + 1]
         s == nodes[idx].addr
         response == IF Serves(s) /\ Answers(s) THEN StoreResponse(chunk.chunk_id)
                     ELSE CommError
     IN  /\ IF Serves(s)
            THEN /\ metadata' = [metadata EXCEPT ![s] =
                       StoreMetadata(@, loc.filename, chunk.chunk_id, chunk.chunk_hash)]
                 /\ disk' = [disk EXCEPT ![s] =
                       StoreDisk(@, loc.filename, chunk.chunk_id, chunk.chunk_data)]
            ELSE UNCHANGED <<metadata, disk>>
         /\ loc' = IF response.status = "success"
                   THEN [loc EXCEPT !.i = @ + 1,
                                    !.stored_nodes = Append(@, nodes[idx].node_id)]
                   ELSE loc
         /\ reqlog' = IF Len(reqlog) < 2 * MaxFileLen * MaxReplication
                      THEN Append(reqlog, LogEntry("STORE", idx, chunk.chunk_id,
                                                   response.status))
                      ELSE reqlog
         /\ uploaded' = [uploaded EXCEPT ![loc.filename].acked =
                            @ /\ response.status = "success"]
  /\ UNCHANGED <<part, served, threads, wire, replication_factor, chunk_size,
                 nodes, file_mapping, health, pc,
                 ret, out, quiet, outBefore, nops, nfaults>>

\* One pass of the inner loop: a STORE request to the next target node.
UploadStore ==
  /\ pc = "upload"
  /\ loc.k <= Len(loc.chunks)
  /\ loc.i < NumReplicas
  /\ LET chunk == loc.chunks[loc.k]
         idx == TargetNodes(chunk.chunk_id)[loc.i + 1]
         s == nodes[idx].addr
         response == IF Serves(s) /\ Answers(s) THEN StoreResponse(chunk.chunk_id)
                     ELSE CommError
     IN  /\ IF Serves(s)
            THEN /\ metadata' = [metadata EXCEPT ![s] =
                       StoreMetadata(@, loc.filename, chunk.chunk_id, chunk.chunk_hash)]
                 /\ disk' = [disk EXCEPT ![s] =
                       StoreDisk(@, loc.filename, chunk.chunk_id, chunk.chunk_data)]
            ELSE UNCHANGED <<metadata, disk>>
         /\ loc' = [loc EXCEPT !.i = @ + 1,
                               !.stored_nodes =
                                  IF response.status = "success"
                                  THEN Append(@, nodes[idx].node_id) ELSE @]
         /\ reqlog' = Append(reqlog, LogEntry("STORE", idx, chunk.chunk_id, response.status))
         /\ uploaded' = [uploaded EXCEPT ![loc.filename].acked =
                            @ /\ response.status = "success"]
  /\ UNCHANGED <<part, served, threads, wire, replication_factor, chunk_size,
                 nodes, file_mapping, health, pc,
                 ret, out, quiet, outBefore, nops, nfaults>>

\* The same pass when the node's disk write raises: store_chunk's except
\* branch answers with an error status (if the answer arrives at all), the
\* index is not updated and the chunk file is left as the failed write left it.
UploadStoreFails ==
  /\ pc = "upload"
  /\ loc.k <= Len(loc.chunks)
  /\ loc.i < NumReplicas
  /\ nfaults < MaxFaults
  /\ LET chunk == loc.chunks[loc.k]
         idx == TargetNodes(chunk.chunk_id)[loc.i + 1]
         s == nodes[idx].addr
         response == IF Answers(s) THEN ErrorResponse("write failed") ELSE CommError
     IN  /\ Serves(s)
         /\ \E left \in StoreFailures(disk[s], loc.filename, chunk.chunk_id, chunk.chunk_data) :
              disk' = [disk EXCEPT ![s] = left]
         /\ loc' = [loc EXCEPT !.i = @ + 1,
                               !.stored_nodes =
                                  IF response.status = "success"
                                  THEN Append(@, nodes[idx].node_id) ELSE @]
         /\ reqlog' = Append(reqlog, LogEntry("STORE", idx, chunk.chunk_id, response.status))
         /\ uploaded' = [Tamper(s) EXCEPT ![loc.filename].acked = FALSE]
  /\ nfaults' = nfaults + 1
  /\ quiet' = FALSE
  /\ UNCHANGED <<part, served, threads, wire, replication_factor, chunk_size,
                 nodes, file_mapping, metadata,
                 health, pc, ret, out, outBefore, nops>>

\* Mutant of UploadRecord: every selected node is recorded.
UploadRecordTargets ==
  /\ pc = "upload"
  /\ loc.k <= Len(loc.chunks)
  /\ loc.i = NumReplicas
  /\ LET chunk_id == loc.chunks[loc.k].chunk_id
         old == file_mapping[loc.filename]
         targets == TargetNodes(chunk_id)
     IN  file_mapping' = [file_mapping EXCEPT ![loc.filename] =
            [c \in DOMAIN old \cup {chunk_id} |->
               IF c = chunk_id
               THEN [j \in 1..Len(targets) |-> nodes[targets[j]].node_id]
               ELSE old[c]]]
  /\ loc' = [loc EXCEPT !.k = @ + 1, !.i = 0, !.stored_nodes = <<>>]
  /\ UNCHANGED <<part, served, threads, wire, replication_factor, chunk_size,
                 nodes, metadata, disk, health, pc,
                 ret, out, reqlog, uploaded, quiet, outBefore, nops, nfaults>>

\* Mutant of UploadRecord: a chunk nobody acknowledged gets no entry.
UploadRecordSkipEmpty ==
  /\ pc = "upload"
  /\ loc.k <= Len(loc.chunks)
  /\ loc.i = NumReplicas
  /\ LET chunk_id == loc.chunks[loc.k].chunk_id
         old == file_mapping[loc.filename]
     IN  IF loc.stored_nodes = <<>> THEN UNCHANGED file_mapping
         ELSE file_mapping' = [file_mapping EXCEPT ![loc.filename] =
                [c \in DOMAIN old \cup {chunk_id} |->
                   IF c = chunk_id THEN loc.stored_nodes ELSE old[c]]]
  /\ loc' = [loc EXCEPT !.k = @ + 1, !.i = 0, !.stored_nodes = <<>>]
  /\ UNCHANGED <<part, served, threads, wire, replication_factor, chunk_size,
                 nodes, metadata, disk, health, pc,
                 ret, out, reqlog, uploaded, quiet, outBefore, nops, nfaults>>

\* self.file_mapping[filename][chunk_id] = stored_nodes
UploadRecord ==
  /\ pc = "upload"
  /\ loc.k <= Len(loc.chunks)
  /\ loc.i = NumReplicas
  /\ LET chunk_id == loc.chunks[loc.k].chunk_id
         old == file_mapping[loc.filename]
     IN  file_mapping' = [file_mapping EXCEPT ![loc.filename] =
            [c \in DOMAIN old \cup {chunk_id} |->
               IF c = chunk_id THEN loc.stored_nodes ELSE old[c]]]
  /\ loc' = [loc EXCEPT !.k = @ + 1, !.i = 0, !.stored_nodes = <<>>]
  /\ UNCHANGED <<part, served, threads, wire, replication_factor, chunk_size,
                 nodes, metadata, disk, health, pc,
                 ret, out, reqlog, uploaded, quiet, outBefore, nops, nfaults>>

\* What upload_file returns after its loop.
UploadResult == TRUE

UploadFinish ==
  /\ pc = "upload"
  /\ loc.k > Len(loc.chunks)
  /\ ret' = Returned("upload", loc.filename, "", UploadResult)
  /\ pc' = "idle"
  /\ loc' = IdleLoc
  /\ UNCHANGED <<part, served, threads, wire, replication_factor, chunk_size,
                 nodes, file_mapping, metadata, disk,
                 health, out, reqlog, uploaded, quiet, outBefore, nops, nfaults>>


(***************************************************************************)
(* download_file                                                           *)
(***************************************************************************)
\* sorted(chunk_mapping.keys())
RECURSIVE SortedKeys(_)
SortedKeys(S) ==
  IF S = {} THEN <<>>
  ELSE LET m == CHOOSE x \in S : \A y \in S : x <= y
       IN  <<m>> \o SortedKeys(S \ {m})

\* Mutant of DownloadBegin: the output file is created before the descriptor
\* is looked up.
DownloadBeginCreates(filename, output_path) ==
  /\ pc = "idle"
  /\ nops < MaxOps
  /\ nops' = nops + 1
  /\ reqlog' = <<>>
  /\ quiet' = TRUE
  /\ outBefore' = out
  /\ out' = [out EXCEPT ![output_path] = [exists |-> TRUE, data |-> <<>>]]
  /\ IF filename \notin DOMAIN file_mapping
     THEN /\ ret' = Returned("download", filename, output_path, FALSE)
          /\ UNCHANGED <<pc, loc>>
     ELSE /\ loc' = [IdleLoc EXCEPT !.filename = filename, !.k = 1,
                                    !.output_path = output_path]
          /\ pc' = "download"
          /\ UNCHANGED ret
  /\ UNCHANGED <<part, served, threads, wire, replication_factor, chunk_size,
                 nodes, file_mapping, metadata, disk,
                 health, uploaded, nfaults>>

DownloadBegin(filename, output_path) ==
  /\ pc = "idle"
  /\ nops < MaxOps
  /\ nops' = nops + 1
  /\ reqlog' = <<>>
  /\ quiet' = TRUE
  /\ outBefore' = out
  /\ IF filename \notin DOMAIN file_mapping
     THEN /\ ret' = Returned("download", filename, output_path, FALSE)
          /\ UNCHANGED <<pc, loc>>
     ELSE /\ loc' = [IdleLoc EXCEPT !.filename = filename, !.k = 1,
                                    !.output_path = output_path]
          /\ pc' = "download"
          /\ UNCHANGED ret
  /\ UNCHANGED <<part, served, threads, wire, replication_factor, chunk_size,
                 nodes, file_mapping, metadata, disk,
                 health, out, uploaded, nfaults>>

\* The chunk the download loop is at, and the nodes recorded for it.
DownloadChunkId == SortedKeys(DOMAIN file_mapping[loc.filename])[loc.k]
DownloadNodeIds == file_mapping[loc.filename][DownloadChunkId]

\* Mutant of Accepts: the digest is not checked.
AcceptsUnverified(response) == response.status = "success"

\* Whether a RETRIEVE response is taken as the chunk.
Accepts(response) ==
  /\ response.status = "success"
  /\ verify_chunk(response.chunk_data, response.chunk_hash)

\* One pass of the inner loop: the next recorded node is looked up and asked.
DownloadRetrieve ==
  /\ pc = "download"
  /\ loc.k <= Cardinality(DOMAIN file_mapping[loc.filename])
  /\ loc.i < Len(DownloadNodeIds)
  /\ LET chunk_id == DownloadChunkId
         node_id == DownloadNodeIds[loc.i + 1]
         idx == FindNode(node_id)
     IN  IF idx = 0
         THEN /\ loc' = [loc EXCEPT !.i = @ + 1]
              /\ UNCHANGED reqlog
         ELSE LET s == nodes[idx].addr
                  response == IF Serves(s) /\ Answers(s)
                              THEN retrieve_chunk(metadata[s], disk[s], loc.filename, chunk_id)
                              ELSE CommError
              IN  /\ reqlog' = Append(reqlog,
                        LogEntry("RETRIEVE", idx, chunk_id,
                                 IF Accepts(response) THEN "verified" ELSE response.status))
                  /\ IF Accepts(response)
                     THEN loc' = [loc EXCEPT
                            !.chunks = Append(@, [chunk_id |-> chunk_id,
                                                  chunk_data |-> response.chunk_data]),
                            !.k = @ + 1, !.i = 0]
                     ELSE loc' = [loc EXCEPT !.i = @ + 1]
  /\ UNCHANGED <<part, served, threads, wire, replication_factor, chunk_size,
                 nodes, file_mapping, metadata, disk,
                 health, pc, ret, out, uploaded, quiet, outBefore, nops, nfaults>>

\* Mutant of DownloadAbort: the chunks retrieved so far are written out.
DownloadAbortPartial ==
  /\ pc = "download"
  /\ loc.k <= Cardinality(DOMAIN file_mapping[loc.filename])
  /\ loc.i = Len(DownloadNodeIds)
  /\ out' = [out EXCEPT ![loc.output_path] =
               [exists |-> TRUE, data |-> reassemble_file(loc.chunks)]]
  /\ ret' = Returned("download", loc.filename, loc.output_path, FALSE)
  /\ pc' = "idle"
  /\ loc' = IdleLoc
  /\ UNCHANGED <<part, served, threads, wire, replication_factor, chunk_size,
                 nodes, file_mapping, metadata, disk,
                 health, reqlog, uploaded, quiet, outBefore, nops, nfaults>>

\* Mutant of DownloadAbort: a chunk that no replica yielded is skipped.
DownloadAbortSkips ==
  /\ pc = "download"
  /\ loc.k <= Cardinality(DOMAIN file_mapping[loc.filename])
  /\ loc.i = Len(DownloadNodeIds)
  /\ loc' = [loc EXCEPT !.k = @ + 1, !.i = 0]
  /\ UNCHANGED <<part, served, threads, wire, replication_factor, chunk_size,
                 nodes, file_mapping, metadata, disk,
                 health, pc, ret, out, reqlog, uploaded, quiet, outBefore, nops, nfaults>>

\* if not chunk_retrieved: return False
DownloadAbort ==
  /\ pc = "download"
  /\ loc.k <= Cardinality(DOMAIN file_mapping[loc.filename])
  /\ loc.i = Len(DownloadNodeIds)
  /\ ret' = Returned("download", loc.filename, loc.output_path, FALSE)
  /\ pc' = "idle"
  /\ loc' = IdleLoc
  /\ UNCHANGED <<part, served, threads, wire, replication_factor, chunk_size,
                 nodes, file_mapping, metadata, disk,
                 health, out, reqlog, uploaded, quiet, outBefore, nops, nfaults>>

\* self.partitioner.reassemble_file(chunks, output_path); return True
DownloadFinish ==
  /\ pc = "download"
  /\ loc.k > Cardinality(DOMAIN file_mapping[loc.filename])
  /\ out' = [out EXCEPT ![loc.output_path] =
               [exists |-> TRUE, data |-> reassemble_file(loc.chunks)]]
  /\ ret' = Returned("download", loc.filename, loc.output_path, TRUE)
  /\ pc' = "idle"
  /\ loc' = IdleLoc
  /\ UNCHANGED <<part, served, threads, wire, replication_factor, chunk_size,
                 nodes, file_mapping, metadata, disk,
                 health, reqlog, uploaded, quiet, outBefore, nops, nfaults>>

(***************************************************************************)
(* delete_file (client)                                                    *)
(***************************************************************************)
DeleteBegin(filename) ==
  /\ pc = "idle"
  /\ nops < MaxOps
  /\ nops' = nops + 1
  /\ reqlog' = <<>>
  /\ quiet' = TRUE
  /\ outBefore' = out
  /\ IF filename \notin DOMAIN file_mapping
     THEN /\ ret' = Returned("delete", filename, "", FALSE)
          /\ UNCHANGED <<pc, loc>>
     ELSE /\ loc' = [IdleLoc EXCEPT !.filename = filename, !.k = 1]
          /\ pc' = "delete"
          /\ UNCHANGED ret
  /\ UNCHANGED <<part, served, threads, wire, replication_factor, chunk_size,
                 nodes, file_mapping, metadata, disk,
                 health, out, uploaded, nfaults>>

\* One pass of "for node in self.nodes": a DELETE request, its response dropped.
DeleteSend ==
  /\ pc = "delete"
  /\ loc.k <= Len(nodes)
  /\ LET s == nodes[loc.k].addr
         md == metadata[s]
         dk == disk[s]
         response == IF Serves(s) /\ Answers(s)
                     THEN DeleteResponse(md, dk, loc.filename) ELSE CommError
     IN  /\ IF Serves(s) /\ loc.filename \in DOMAIN md
            THEN /\ metadata' = [metadata EXCEPT ![s] = DeleteMetadata(md, dk, loc.filename)]
                 /\ disk' = [disk EXCEPT ![s] = DeleteDisk(md, dk, loc.filename)]
            ELSE UNCHANGED <<metadata, disk>>
         /\ reqlog' = Append(reqlog, LogEntry("DELETE", loc.k, 0, response.status))
  /\ loc' = [loc EXCEPT !.k = @ + 1]
  /\ UNCHANGED <<part, served, threads, wire, replication_factor, chunk_size,
                 nodes, file_mapping, health, pc,
                 ret, out, uploaded, quiet, outBefore, nops, nfaults>>

\* Mutant of DeleteFinish: a failed node delete makes delete_file fail and
\* keep the descriptor.
DeleteFinishStrict ==
  /\ pc = "delete"
  /\ loc.k > Len(nodes)
  /\ IF \E j \in 1..Len(reqlog) : reqlog[j].status # "success"
     THEN /\ ret' = Returned("delete", loc.filename, "", FALSE)
          /\ UNCHANGED file_mapping
     ELSE /\ ret' = Returned("delete", loc.filename, "", TRUE)
          /\ file_mapping' = [f \in DOMAIN file_mapping \ {loc.filename} |-> file_mapping[f]]
  /\ pc' = "idle"
  /\ loc' = IdleLoc
  /\ UNCHANGED <<part, served, threads, wire, replication_factor, chunk_size,
                 nodes, metadata, disk, health,
                 out, reqlog, uploaded, quiet, outBefore, nops, nfaults>>

\* del self.file_mapping[filename]; return True
DeleteFinish ==
  /\ pc = "delete"
  /\ loc.k > Len(nodes)
  /\ file_mapping' = [f \in DOMAIN file_mapping \ {loc.filename} |-> file_mapping[f]]
  /\ ret' = Returned("delete", loc.filename, "", TRUE)
  /\ pc' = "idle"
  /\ loc' = IdleLoc
  /\ UNCHANGED <<part, served, threads, wire, replication_factor, chunk_size,
                 nodes, metadata, disk, health,
                 out, reqlog, uploaded, quiet, outBefore, nops, nfaults>>

Next ==
  \/ \E node_id \in {0, Len(nodes)} : AddNode(node_id)
  \/ \E s \in Servers, h \in {"up", "down", "slow"} : SetHealth(s, h)
  \/ \E s \in Servers : \E path \in DOMAIN disk[s] :
       \E data \in Damaged(disk[s][path]) : Corrupt(s, path, data)
  \/ \E s \in Servers : Restart(s)
  \/ \E filename \in FileNames, content \in Contents : UploadBegin(filename, content)
  \/ UploadStore
  \/ UploadStoreFails
  \/ UploadRecord
  \/ UploadFinish
  \/ \E filename \in FileNames, output_path \in Dests : DownloadBegin(filename, output_path)
  \/ DownloadRetrieve
  \/ DownloadAbort
  \/ DownloadFinish
  \/ \E filename \in FileNames : DeleteBegin(filename)
  \/ DeleteSend
  \/ DeleteFinish

Spec == Init /\ [][Next]_vars


(***************************************************************************)
(* Properties of upload, download and delete (checked under Spec)          *)
(***************************************************************************)
Idle(op) == pc = "idle" /\ ret.op = op

\* No node id is registered twice.
UniqueIds ==
  \A x, y \in 1..Len(nodes) : x # y => nodes[x].node_id # nodes[y].node_id

\* The server a recorded node id leads download_file to.
ServerOf(node_id) == nodes[FindNode(node_id)].addr

\* A server holds a good copy of a chunk: it answers, its index has the key,
\* and the chunk file's bytes hash to the recorded digest.
Healthy(s, filename, chunk_id) ==
  /\ health[s] = "up"
  /\ filename \in DOMAIN metadata[s]
  /\ chunk_id \in DOMAIN metadata[s][filename]
  /\ ChunkPath(filename, chunk_id) \in DOMAIN disk[s]
  /\ Sha256(disk[s][ChunkPath(filename, chunk_id)])
       = metadata[s][filename][chunk_id].chunk_hash

HealthyReplicas(filename, chunk_id) ==
  {j \in 1..Len(file_mapping[filename][chunk_id]) :
     Healthy(ServerOf(file_mapping[filename][chunk_id][j]), filename, chunk_id)}

FirstHealthy(filename, chunk_id) ==
  CHOOSE j \in HealthyReplicas(filename, chunk_id) :
    \A x \in HealthyReplicas(filename, chunk_id) : j <= x

\* The bytes the first healthy replica of each chunk holds, chunk after chunk.
RECURSIVE HealthyBytes(_, _, _)
HealthyBytes(filename, chunk_id, n) ==
  IF chunk_id >= n THEN <<>>
  ELSE disk[ServerOf(file_mapping[filename][chunk_id][FirstHealthy(filename, chunk_id)])]
           [ChunkPath(filename, chunk_id)]
       \o HealthyBytes(filename, chunk_id + 1, n)

\* A download of a known file has returned, and no fault happened while it ran.
QuietDownload ==
  /\ Idle("download")
  /\ quiet
  /\ ret.filename \in DOMAIN file_mapping

\* C1: upload_file returns success only if every chunk of the file got at
\* least one acknowledging replica.
C1_UploadSuccessNeedsAck ==
  (Idle("upload") /\ ret.val)
    => \A c \in DOMAIN file_mapping[ret.filename] : file_mapping[ret.filename][c] # <<>>

\* C2: fallback retrieval.  When every chunk of the file has a healthy replica
\* somewhere in its recorded list (behind replicas that are unreachable, have
\* lost the chunk or serve bytes that do not match the digest), the download
\* succeeds and writes, for each chunk, the bytes of its first healthy replica.
C2_FallbackRetrieval ==
  (/\ QuietDownload
   /\ \A c \in DOMAIN file_mapping[ret.filename] : HealthyReplicas(ret.filename, c) # {})
    => /\ ret.val
       /\ out[ret.output_path] =
            [exists |-> TRUE,
             data |-> HealthyBytes(ret.filename, 0,
                                   Cardinality(DOMAIN file_mapping[ret.filename]))]

\* A successful download of a two-chunk file in which one chunk's first
\* replica answered with bytes that fail verification and the chunk was taken
\* from its second replica.
C2_Witness ==
  /\ QuietDownload
  /\ ret.val
  /\ UniqueIds
  /\ Cardinality(DOMAIN file_mapping[ret.filename]) > 1
  /\ \E c2 \in DOMAIN file_mapping[ret.filename] :
       /\ Len(file_mapping[ret.filename][c2]) > 1
       /\ LET s == ServerOf(file_mapping[ret.filename][c2][1])
          IN  /\ health[s] = "up"
              /\ retrieve_chunk(metadata[s], disk[s], ret.filename, c2).status = "success"
              /\ ~Healthy(s, ret.filename, c2)
       /\ FirstHealthy(ret.filename, c2) > 1

\* C3: a download that finds no verified replica for some chunk returns
\* failure, and a download that returns failure leaves the local files as it
\* found them.
C3_FailedDownloadWritesNothing ==
  /\ (/\ QuietDownload
      /\ \E c \in DOMAIN file_mapping[ret.filename] : HealthyReplicas(ret.filename, c) = {})
       => ~ret.val
  /\ (Idle("download") /\ ~ret.val) => out = outBefore

\* A failed download that had already retrieved and verified an earlier chunk.
C3_Witness ==
  /\ QuietDownload
  /\ ~ret.val
  /\ \E j \in 1..Len(reqlog) : reqlog[j].status = "verified"
  /\ \E c \in DOMAIN file_mapping[ret.filename] :
       /\ file_mapping[ret.filename][c] # <<>>
       /\ HealthyReplicas(ret.filename, c) = {}

Unreachable == {s \in 1..Len(nodes) : health[s] # "up"}

\* A download has returned that ran on a fully acknowledged upload, with
\* replication_factor <= node count, unique ids, and at most
\* replication_factor - 1 servers lost (unreachable, or corrupted or restarted
\* since the upload).
TolerableLoss ==
  /\ QuietDownload
  /\ ret.filename \in DOMAIN uploaded
  /\ uploaded[ret.filename].acked
  /\ replication_factor <= Len(nodes)
  /\ UniqueIds
  /\ Cardinality(Unreachable \cup uploaded[ret.filename].tampered) < replication_factor

\* C4: replica-loss tolerance.  Such a download succeeds and writes exactly
\* the uploaded bytes.
C4_ReplicaLossTolerance ==
  TolerableLoss
    => /\ ret.val
       /\ out[ret.output_path] =
            [exists |-> TRUE, data |-> uploaded[ret.filename].content]

\* A two-chunk file downloaded while one of its servers is unreachable.
C4_Witness ==
  /\ TolerableLoss
  /\ Unreachable # {}
  /\ Cardinality(DOMAIN file_mapping[ret.filename]) > 1
  /\ \E j \in 1..Len(reqlog) : reqlog[j].status = "error"

\* C5: after the client's delete_file returned success, no server lists the
\* file any more, and the client has no descriptor for it.
C5_DeleteCompleteness ==
  (Idle("delete") /\ ret.val)
    => /\ \A s \in Servers : ret.filename \notin DOMAIN list_files(metadata[s])
       /\ ret.filename \notin DOMAIN file_mapping

\* C6: with replication_factor <= node count, the nodes selected for a chunk
\* carry exactly replication_factor distinct identifiers.
C6_ReplicaDistinctness ==
  (/\ pc = "upload"
   /\ loc.k <= Len(loc.chunks)
   /\ replication_factor <= Len(nodes))
    => Cardinality({nodes[x].node_id : x \in Range(TargetNodes(loc.chunks[loc.k].chunk_id))})
         = replication_factor


\* The j-th STORE request of an upload, by the round-robin rule: chunk
\* (j-1) div r, replica (j-1) mod r, r = min(replication_factor, node count),
\* sent to pool index (chunk + replica) mod node count.
RoundRobinChunk(j) == (j - 1) \div Min(replication_factor, Len(nodes))
RoundRobinNode(j) ==
  ((RoundRobinChunk(j) + ((j - 1) % Min(replication_factor, Len(nodes)))) % Len(nodes)) + 1

ChunkCount(content) == (Len(content) + chunk_size - 1) \div chunk_size

TargetIds(chunk_id) ==
  [i \in 1..NumReplicas |-> nodes[TargetNodes(chunk_id)[i]].node_id]

PoolIds == [x \in 1..Len(nodes) |-> nodes[x].node_id]

\* C7: round-robin placement.  The STORE requests of an upload go, chunk by
\* chunk, to the min(replication_factor, node count) pool indices
\* (chunk_id + i) mod node count, in that order; a finished upload has sent
\* exactly that many per chunk, and a fully acknowledged one has recorded the
\* ids in that order; with nodes 0,1,2 and replication factor 2 the replica
\* lists of chunks 0, 1, 2 are [0,1], [1,2], [2,0].
C7_RoundRobinPlacement ==
  /\ (pc = "upload" \/ Idle("upload"))
       => \A j \in 1..Len(reqlog) :
            /\ reqlog[j].command = "STORE"
            /\ reqlog[j].chunk_id = RoundRobinChunk(j)
            /\ reqlog[j].node = RoundRobinNode(j)
  /\ (Idle("upload") /\ nodes # <<>>)
       => /\ Len(reqlog) = ChunkCount(uploaded[ret.filename].content)
                             * Min(replication_factor, Len(nodes))
          /\ uploaded[ret.filename].acked
               => \A c \in DOMAIN file_mapping[ret.filename] :
                    file_mapping[ret.filename][c] =
                      [i \in 1..Min(replication_factor, Len(nodes)) |->
                         nodes[((c + i - 1) % Len(nodes)) + 1].node_id]
  /\ (PoolIds = <<0, 1, 2>> /\ replication_factor = 2)
       => /\ TargetIds(0) = <<0, 1>>
          /\ TargetIds(1) = <<1, 2>>
          /\ TargetIds(2) = <<2, 0>>

\* Nodes 0,1,2, replication factor 2: a finished two-chunk upload with replica
\* lists [0,1] and [1,2].
C7_Witness ==
  /\ Idle("upload")
  /\ PoolIds = <<0, 1, 2>>
  /\ replication_factor = 2
  /\ Len(reqlog) = 4
  /\ DOMAIN file_mapping[ret.filename] = {0, 1}
  /\ file_mapping[ret.filename][0] = <<0, 1>>
  /\ file_mapping[ret.filename][1] = <<1, 2>>


(***************************************************************************)
(* FilePartitioner on its own: a file is split, its chunks reach the       *)
(* caller in any order (all of them, or only some), and are reassembled.   *)
(***************************************************************************)
PartInit ==
  /\ replication_factor = 1
  /\ chunk_size = 1
  /\ ClientStart
  /\ served = NotServing
  /\ threads = NoThreads
  /\ wire = NoWire
  /\ \E content \in SeqsUpTo(Byte, MaxPartLen), size \in 1..MaxPartChunk :
       part = [NoPart EXCEPT !.pc = "split", !.content = content, !.size = size]

PartOnly == UNCHANGED <<clientVars, metadata, disk, served, threads, wire>>

\* chunks = partition_file(filepath)
PartSplit ==
  /\ part.pc = "split"
  /\ part' = [part EXCEPT !.pc = "collect",
                          !.chunks = partition_file(part.content, part.size)]
  /\ PartOnly

\* One more (chunk_id, chunk_data) pair is appended to the caller's list.
PartArrive(j) ==
  /\ part.pc = "collect"
  /\ j \in 1..Len(part.chunks)
  /\ \A x \in 1..Len(part.arrived) : part.arrived[x].chunk_id # part.chunks[j].chunk_id
  /\ part' = [part EXCEPT !.arrived =
                Append(@, [chunk_id |-> part.chunks[j].chunk_id,
                           chunk_data |-> part.chunks[j].chunk_data])]
  /\ PartOnly

\* reassemble_file(chunks, output_path): sorts, writes, raises nothing.
PartReassemble ==
  /\ part.pc = "collect"
  /\ part' = [part EXCEPT !.pc = "done",
                          !.out = [exists |-> TRUE, data |-> reassemble_file(part.arrived)],
                          !.raised = "none"]
  /\ PartOnly

PartNext ==
  \/ PartSplit
  \/ \E j \in 1..MaxPartLen : PartArrive(j)
  \/ PartReassemble

SpecPart == PartInit /\ [][PartNext]_vars

ArrivedIds == {part.arrived[x].chunk_id : x \in 1..Len(part.arrived)}

\* ceil(S / C)
WindowCount == (Len(part.content) + part.size - 1) \div part.size

\* C8: partitioner round trip.  split yields ceil(S/C) chunks with ids
\* 0..n-1 in read order, each non-empty, each of length C except possibly the
\* last, each carrying the digest of its bytes; reassembling all of them, in
\* whatever order they arrived, yields exactly the original bytes.
C8_PartitionRoundTrip ==
  /\ part.pc \in {"collect", "done"}
       => /\ Len(part.chunks) = WindowCount
          /\ \A j \in 1..Len(part.chunks) :
               /\ part.chunks[j].chunk_id = j - 1
               /\ part.chunks[j].chunk_data # <<>>
               /\ Len(part.chunks[j].chunk_data) <= part.size
               /\ j < Len(part.chunks) => Len(part.chunks[j].chunk_data) = part.size
               /\ part.chunks[j].chunk_data =
                    [x \in 1..Len(part.chunks[j].chunk_data) |->
                       part.content[(j - 1) * part.size + x]]
               /\ verify_chunk(part.chunks[j].chunk_data, part.chunks[j].chunk_hash)
  /\ (part.pc = "done" /\ Len(part.arrived) = Len(part.chunks))
       => part.out = [exists |-> TRUE, data |-> part.content]

\* A file of three or more chunks, the last one short, reassembled from chunks
\* that arrived out of order.
C8_Witness ==
  /\ part.pc = "done"
  /\ Len(part.chunks) >= 3
  /\ Len(part.arrived) = Len(part.chunks)
  /\ Len(part.chunks[Len(part.chunks)].chunk_data) < part.size
  /\ part.arrived[1].chunk_id > part.arrived[2].chunk_id
  /\ part.content[1] # part.content[2]
  /\ part.out.data = part.content

\* C9: reassemble fails with IncompleteSequenceError, and produces no output,
\* when some sequenceId of 0..N-1 is missing from the chunks it is given.
C9_ReassembleRejectsGaps ==
  (part.pc = "done" /\ \E c \in 0..(Len(part.chunks) - 1) : c \notin ArrivedIds)
    => /\ part.raised = "IncompleteSequenceError"
       /\ ~part.out.exists


(***************************************************************************)
(* StorageNode on its own: server 1 serves any STORE, RETRIEVE, LIST and   *)
(* DELETE requests, one after the other.                                   *)
(***************************************************************************)
NodeFileNames == {"a", "b"}
NodeChunkIds == {0, 1}
NodeData == SeqsUpTo(Byte, 1)
\* The digest a request carries is the sender's: the right one, or another.
NodeHashes(chunk_data) == {Sha256(chunk_data), 0}

NodeInit ==
  /\ replication_factor = 1
  /\ chunk_size = 1
  /\ ClientStart
  /\ part = NoPart
  /\ served = NotServing
  /\ threads = NoThreads
  /\ wire = NoWire

NodeOnly == UNCHANGED <<clientVars, part, threads, wire>>

Request(command, filename, chunk_id, chunk_data, chunk_hash) ==
  [command |-> command, filename |-> filename, chunk_id |-> chunk_id,
   chunk_data |-> chunk_data, chunk_hash |-> chunk_hash]

\* handle_client: one request is read, dispatched and answered.
Serve(request, response, files, written) ==
  served' = [count |-> served.count + 1, request |-> request, response |-> response,
             files |-> files, previous |-> served.request,
             previous_status |-> served.response.status,
             before |-> <<metadata[1], disk[1]>>, written |-> written]

NodeStore(filename, chunk_id, chunk_data, chunk_hash) ==
  /\ served.count < MaxRequests
  /\ metadata' = [metadata EXCEPT ![1] = StoreMetadata(@, filename, chunk_id, chunk_hash)]
  /\ disk' = [disk EXCEPT ![1] = StoreDisk(@, filename, chunk_id, chunk_data)]
  /\ Serve(Request("STORE", filename, chunk_id, chunk_data, chunk_hash),
           StoreResponse(chunk_id), served.files,
           [k \in DOMAIN served.written \cup {<<filename, chunk_id>>} |->
              IF k = <<filename, chunk_id>>
              THEN [chunk_data |-> chunk_data, chunk_hash |-> chunk_hash]
              ELSE served.written[k]])
  /\ NodeOnly

\* store_chunk, the except branch: the index is not updated, the response is
\* an error, and the chunk directory is left as the failed write left it.
NodeStoreFails(filename, chunk_id, chunk_data, chunk_hash) ==
  /\ served.count < MaxRequests
  /\ \E left \in StoreFailures(disk[1], filename, chunk_id, chunk_data) :
       disk' = [disk EXCEPT ![1] = left]
  /\ UNCHANGED metadata
  /\ Serve(Request("STORE", filename, chunk_id, chunk_data, chunk_hash),
           ErrorResponse("write failed"), served.files, served.written)
  /\ NodeOnly

NodeRetrieve(filename, chunk_id) ==
  /\ served.count < MaxRequests
  /\ Serve(Request("RETRIEVE", filename, chunk_id, <<>>, 0),
           retrieve_chunk(metadata[1], disk[1], filename, chunk_id),
           served.files, served.written)
  /\ UNCHANGED <<metadata, disk>>
  /\ NodeOnly

NodeList ==
  /\ served.count < MaxRequests
  /\ Serve(Request("LIST", "", 0, <<>>, 0),
           [NoResponse EXCEPT !.status = "success"],
           list_files(metadata[1]), served.written)
  /\ UNCHANGED <<metadata, disk>>
  /\ NodeOnly

NodeDelete(filename) ==
  /\ served.count < MaxRequests
  /\ LET md == metadata[1]
         dk == disk[1]
         response == DeleteResponse(md, dk, filename)
     IN  /\ IF filename \in DOMAIN md
            THEN /\ metadata' = [metadata EXCEPT ![1] = DeleteMetadata(md, dk, filename)]
                 /\ disk' = [disk EXCEPT ![1] = DeleteDisk(md, dk, filename)]
            ELSE UNCHANGED <<metadata, disk>>
         /\ Serve(Request("DELETE", filename, 0, <<>>, 0), response, served.files,
                  IF response.status = "success"
                  THEN [k \in {x \in DOMAIN served.written : x[1] # filename} |->
                          served.written[k]]
                  ELSE served.written)
  /\ NodeOnly

NodeNext ==
  \/ \E filename \in NodeFileNames, chunk_id \in NodeChunkIds, chunk_data \in NodeData :
       \E chunk_hash \in NodeHashes(chunk_data) :
         NodeStore(filename, chunk_id, chunk_data, chunk_hash)
  \/ \E filename \in NodeFileNames, chunk_id \in NodeChunkIds, chunk_data \in NodeData :
       \E chunk_hash \in NodeHashes(chunk_data) :
         NodeStoreFails(filename, chunk_id, chunk_data, chunk_hash)
  \/ \E filename \in NodeFileNames, chunk_id \in NodeChunkIds :
       NodeRetrieve(filename, chunk_id)
  \/ NodeList
  \/ \E filename \in NodeFileNames : NodeDelete(filename)

SpecNode == NodeInit /\ [][NodeNext]_vars

\* C10: Store is last-write-wins per key.  After any sequence of requests
\* served one at a time, the index entry and the chunk file of every key are
\* those of the last successful STORE for that key (since the file was last
\* deleted), a key with no successful STORE has no index entry, so a STORE
\* leaves the entries of all other keys as they were; and a successful STORE
\* that repeats the successful request served just before it leaves index and
\* disk unchanged.
C10_StoreLastWriteWins ==
  /\ \A filename \in NodeFileNames, chunk_id \in NodeChunkIds :
       IF <<filename, chunk_id>> \in DOMAIN served.written
       THEN /\ filename \in DOMAIN metadata[1]
            /\ chunk_id \in DOMAIN metadata[1][filename]
            /\ metadata[1][filename][chunk_id] =
                 [chunk_hash |-> served.written[<<filename, chunk_id>>].chunk_hash,
                  chunk_path |-> ChunkPath(filename, chunk_id)]
            /\ ChunkPath(filename, chunk_id) \in DOMAIN disk[1]
            /\ disk[1][ChunkPath(filename, chunk_id)] =
                 served.written[<<filename, chunk_id>>].chunk_data
       ELSE ~(filename \in DOMAIN metadata[1] /\ chunk_id \in DOMAIN metadata[1][filename])
  /\ (/\ served.request.command = "STORE"
      /\ served.previous = served.request
      /\ served.response.status = "success"
      /\ served.previous_status = "success")
       => <<metadata[1], disk[1]>> = served.before

\* The index entry of (filename, chunk_id) names a chunk file that exists and
\* whose bytes hash to the recorded digest.
EntryValid(md, dk, filename, chunk_id) ==
  /\ md[filename][chunk_id].chunk_path \in DOMAIN dk
  /\ Sha256(dk[md[filename][chunk_id].chunk_path]) = md[filename][chunk_id].chunk_hash

\* C11: when the disk write of a STORE fails the node answers with an error,
\* its index is as it was before the request, and every index entry whose chunk
\* file matched its digest before the request (the entry of the key being
\* overwritten included) still has a chunk file matching its digest.
C11_FailedStoreKeepsIndexValid ==
  (served.request.command = "STORE" /\ served.response.status = "error")
    => /\ metadata[1] = served.before[1]
       /\ \A filename \in DOMAIN metadata[1] :
            \A chunk_id \in DOMAIN metadata[1][filename] :
              EntryValid(served.before[1], served.before[2], filename, chunk_id)
                => EntryValid(metadata[1], disk[1], filename, chunk_id)

\* C12: a DELETE of a file the index holds clears every index entry of the
\* file even when it answers with an error, so no index entry of the file is
\* left naming a chunk file that is gone; a DELETE of a file the index does not
\* hold answers "File not found" and changes neither index nor disk.
C12_DeleteClearsIndexOnFailure ==
  served.request.command = "DELETE"
    => IF served.request.filename \in DOMAIN served.before[1]
       THEN /\ served.response.status \in {"success", "error"}
            /\ served.request.filename \notin DOMAIN metadata[1]
       ELSE /\ served.response = ErrorResponse("File not found")
            /\ <<metadata[1], disk[1]>> = served.before

(***************************************************************************)
(* Further properties of upload, download and delete (checked under Spec)  *)
(***************************************************************************)
\* The requests of the running command are DELETEs, the j-th to the j-th
\* registration of the pool.
DeleteBroadcast(log) ==
  \A j \in 1..Len(log) : log[j].command = "DELETE" /\ log[j].node = j

\* C13: delete_file of a file that has a descriptor sends one DELETE to every
\* registered node, in pool order and whatever the nodes answer, then removes
\* the descriptor (and no other) and returns True; it returns at once only
\* for a file that has no descriptor.
C13_DeleteBestEffort ==
  [][/\ (pc = "idle" /\ pc' = "idle" /\ nops' = nops + 1 /\ ret'.op = "delete")
          => ret'.filename \notin DOMAIN file_mapping
     /\ pc' = "delete"
          => /\ loc'.filename \in DOMAIN file_mapping'
             /\ Len(reqlog') <= Len(nodes')
             /\ DeleteBroadcast(reqlog')
     /\ (pc = "delete" /\ pc' = "idle")
          => /\ Len(reqlog') = Len(nodes)
             /\ DeleteBroadcast(reqlog')
             /\ ret' = Returned("delete", loc.filename, "", TRUE)
             /\ file_mapping' =
                  [f \in DOMAIN file_mapping \ {loc.filename} |-> file_mapping[f]]]_vars

\* A delete over three nodes has returned True although one node answered
\* with an error (it never held the file, or it was unreachable) and another
\* deleted its chunks.
C13_Witness ==
  /\ Idle("delete")
  /\ ret.val
  /\ Len(nodes) = 3
  /\ Len(reqlog) = 3
  /\ \E j \in 1..3 : reqlog[j].status = "error"
  /\ \E j \in 1..3 : reqlog[j].status = "success"
  /\ ret.filename \notin DOMAIN file_mapping

\* C14: a download_file of a name that has no descriptor returns at once with
\* False: no request is sent, no local file is created or changed, and the
\* descriptor table is as it was.
C14_UnknownFileDownload ==
  [][(/\ pc = "idle"
      /\ nops' = nops + 1
      /\ \/ pc' = "download" /\ loc'.filename \notin DOMAIN file_mapping
         \/ pc' = "idle" /\ ret'.op = "download" /\ ret'.filename \notin DOMAIN file_mapping)
       => /\ pc' = "idle"
          /\ ret'.val = FALSE
          /\ reqlog' = <<>>
          /\ out' = out
          /\ file_mapping' = file_mapping
          /\ <<metadata', disk'>> = <<metadata, disk>>]_vars

\* A download of an unknown name has returned False with nodes registered.
C14_Witness ==
  /\ Idle("download")
  /\ nodes # <<>>
  /\ ret.filename \notin DOMAIN file_mapping
  /\ ~ret.val
  /\ reqlog = <<>>

\* The ids of the nodes whose STORE of the chunk the client saw succeed, in
\* the order they were contacted.
RECURSIVE AckedIds(_, _)
AckedIds(log, chunk_id) ==
  IF log = <<>> THEN <<>>
  ELSE LET e == log[1]
           rest == AckedIds(Tail(log), chunk_id)
       IN  IF e.command = "STORE" /\ e.chunk_id = chunk_id /\ e.status = "success"
           THEN <<nodes[e.node].node_id>> \o rest
           ELSE rest

\* C17: while an upload runs and after it has returned, the descriptor's node
\* list of every recorded chunk is exactly the ids of the nodes whose STORE of
\* that chunk returned status success, in contact order; so a node that
\* failed, timed out or answered with an error is not in it, and a chunk that
\* nobody acknowledged has the empty list.
C17_DescriptorRecordsAcks ==
  (pc = "upload" \/ (Idle("upload") /\ ret.val))
    => LET filename == IF pc = "upload" THEN loc.filename ELSE ret.filename
       IN  /\ filename \in DOMAIN file_mapping
           /\ \A chunk_id \in DOMAIN file_mapping[filename] :
                file_mapping[filename][chunk_id] = AckedIds(reqlog, chunk_id)

\* An upload has returned with one chunk that only the second of its two
\* nodes acknowledged and another that both of its nodes acknowledged.
C17_Witness ==
  /\ Idle("upload")
  /\ ret.val
  /\ UniqueIds
  /\ \E c \in DOMAIN file_mapping[ret.filename] :
       /\ Len(file_mapping[ret.filename][c]) = 1
       /\ \E j \in 1..(Len(reqlog) - 1) :
            /\ reqlog[j].chunk_id = c /\ reqlog[j].status # "success"
            /\ reqlog[j + 1].chunk_id = c /\ reqlog[j + 1].status = "success"
  /\ \E c \in DOMAIN file_mapping[ret.filename] : Len(file_mapping[ret.filename][c]) = 2

\* C18: file descriptor completeness.  Whenever no upload is running, every
\* descriptor's keys are exactly 0 .. n-1 where n is the number of chunks of
\* the bytes last uploaded under that name.
C18_DescriptorComplete ==
  pc # "upload"
    => \A filename \in DOMAIN file_mapping :
         /\ filename \in DOMAIN uploaded
         /\ DOMAIN file_mapping[filename] =
              0 .. (ChunkCount(uploaded[filename].content) - 1)

\* A name was uploaded again with fewer chunks (a node still indexes a chunk
\* id the descriptor no longer has), and one of its chunks has no replica.
C18_Witness ==
  /\ Idle("upload")
  /\ ret.val
  /\ nops = 2
  /\ \E s \in Servers :
       /\ ret.filename \in DOMAIN metadata[s]
       /\ \E c \in DOMAIN metadata[s][ret.filename] :
            c \notin DOMAIN file_mapping[ret.filename]
  /\ \E c \in DOMAIN file_mapping[ret.filename] : file_mapping[ret.filename][c] = <<>>

\* The RETRIEVE requests of the log that are for one chunk, in order.
RetrievesOf(log, chunk_id) ==
  SelectSeq(log, LAMBDA e : e.command = "RETRIEVE" /\ e.chunk_id = chunk_id)

\* C19: download ordering.  The RETRIEVE requests of a download go chunk by
\* chunk in ascending id starting at chunk 0; those for one chunk go to the
\* recorded nodes in recorded order, one request per recorded entry; a
\* verified payload is the last request for its chunk and the next request,
\* if any, is for the next chunk; a request that is not verified is followed
\* only by a request for the same chunk, so nothing is asked for a later
\* chunk once a chunk has run out of replicas.
C19_DownloadOrdering ==
  (pc = "download" \/ (Idle("download") /\ ret.filename \in DOMAIN file_mapping))
    => LET filename == IF pc = "download" THEN loc.filename ELSE ret.filename
           recorded == file_mapping[filename]
       IN  /\ \A j \in 1..Len(reqlog) :
                /\ reqlog[j].command = "RETRIEVE"
                /\ reqlog[j].chunk_id \in DOMAIN recorded
           /\ reqlog # <<>> => reqlog[1].chunk_id = 0
           /\ \A j \in 1..(Len(reqlog) - 1) :
                IF reqlog[j].status = "verified"
                THEN reqlog[j + 1].chunk_id = reqlog[j].chunk_id + 1
                ELSE reqlog[j + 1].chunk_id = reqlog[j].chunk_id
           /\ \A chunk_id \in DOMAIN recorded :
                LET asked == RetrievesOf(reqlog, chunk_id)
                IN  /\ Len(asked) <= Len(recorded[chunk_id])
                    /\ \A j \in 1..Len(asked) :
                         asked[j].node = FindNode(recorded[chunk_id][j])

\* With distinct node ids, a download asked the second replica of chunk 0
\* after the first had failed, and only then went on to chunk 1.
C19_Witness ==
  /\ Idle("download")
  /\ ret.val
  /\ UniqueIds
  /\ Len(reqlog) = 3
  /\ reqlog[1].chunk_id = 0 /\ reqlog[1].status # "verified"
  /\ reqlog[2].chunk_id = 0 /\ reqlog[2].status = "verified"
  /\ reqlog[3].chunk_id = 1 /\ reqlog[3].status = "verified"

(***************************************************************************)
(* Termination of the client's commands (checked under SpecFair)           *)
(***************************************************************************)
\* One step of the command the client is running.  send_request returns
\* after at most its connect and recv timeouts, so a running command always
\* takes its next step.
ClientStep ==
  \/ UploadStore
  \/ UploadRecord
  \/ UploadFinish
  \/ DownloadRetrieve
  \/ DownloadAbort
  \/ DownloadFinish
  \/ DeleteSend
  \/ DeleteFinish

\* The nodes' reachability as the client finds it: any of them may refuse
\* connections or answer too late from the start.
InitFair ==
  /\ replication_factor \in 1..MaxReplication
  /\ chunk_size \in 1..MaxChunkSize
  /\ nodes = <<>>
  /\ file_mapping = EmptyMap
  /\ metadata = [s \in Servers |-> EmptyMap]
  /\ disk = [s \in Servers |-> EmptyMap]
  /\ health \in [Servers -> {"up", "down", "slow"}]
  /\ pc = "idle"
  /\ loc = IdleLoc
  /\ ret = NoRet
  /\ out = [d \in Dests |-> NoFile]
  /\ reqlog = <<>>
  /\ uploaded = EmptyMap
  /\ quiet = TRUE
  /\ outBefore = [d \in Dests |-> NoFile]
  /\ nops = 0
  /\ nfaults = 0
  /\ part = NoPart
  /\ served = NotServing
  /\ threads = NoThreads
  /\ wire = NoWire

\* The files uploaded: every length, the bytes all zero (how often and how
\* many requests are sent depends on the length alone).
FairContents == SeqsUpTo({0}, MaxFileLen)

NextFair ==
  \/ \E node_id \in {0, Len(nodes)} : AddNode(node_id)
  \/ \E filename \in FileNames, content \in FairContents : UploadBegin(filename, content)
  \/ UploadStore
  \/ UploadRecord
  \/ UploadFinish
  \/ \E filename \in FileNames, output_path \in Dests : DownloadBegin(filename, output_path)
  \/ DownloadRetrieve
  \/ DownloadAbort
  \/ DownloadFinish
  \/ \E filename \in FileNames : DeleteBegin(filename)
  \/ DeleteSend
  \/ DeleteFinish

SpecFair == InitFair /\ [][NextFair]_vars /\ WF_vars(ClientStep)

\* The number of replica entries a descriptor records, over all its chunks.
RECURSIVE TotalReplicas(_, _)
TotalReplicas(recorded, ids) ==
  IF ids = {} THEN 0
  ELSE LET c == CHOOSE x \in ids : TRUE
       IN  Len(recorded[c]) + TotalReplicas(recorded, ids \ {c})

\* The requests a command may have sent so far, and has sent when it returns.
RequestBudget ==
  /\ pc = "upload"
       => /\ \A j \in 1..Len(reqlog) : reqlog[j].command = "STORE"
          /\ Len(reqlog) <= ChunkCount(uploaded[loc.filename].content) * NumReplicas
  /\ (Idle("upload") /\ ret.val)
       => /\ \A j \in 1..Len(reqlog) : reqlog[j].command = "STORE"
          /\ Len(reqlog) = ChunkCount(uploaded[ret.filename].content) * NumReplicas
  /\ pc = "download"
       => Len(reqlog) <= TotalReplicas(file_mapping[loc.filename],
                                       DOMAIN file_mapping[loc.filename])
  /\ (Idle("download") /\ ret.filename \in DOMAIN file_mapping)
       => Len(reqlog) <= TotalReplicas(file_mapping[ret.filename],
                                       DOMAIN file_mapping[ret.filename])
  /\ pc = "delete" => Len(reqlog) <= Len(nodes)
  /\ (Idle("delete") /\ ret.val) => Len(reqlog) = Len(nodes)
  /\ (pc = "idle" /\ ~ret.val) => (ret.op = "download" \/ reqlog = <<>>)

\* C20: bounded single-attempt termination.  Every upload, download and
\* delete returns, whatever the nodes do; an upload has then sent exactly
\* chunk count * min(replication_factor, node count) STORE requests, a
\* download at most one RETRIEVE per recorded replica, a delete exactly one
\* DELETE per registered node: a call that failed or timed out is not repeated.
C20_BoundedTermination ==
  /\ []RequestBudget
  /\ (pc # "idle") ~> (pc = "idle")

\* An upload of two chunks to two nodes, one refusing connections and one
\* answering too late, has returned after four STORE requests, all failed.
C20_Witness ==
  /\ Idle("upload")
  /\ Len(nodes) = 2
  /\ health[1] = "down"
  /\ health[2] = "slow"
  /\ Len(reqlog) = 4
  /\ \A j \in 1..4 : reqlog[j].status = "error"

(***************************************************************************)
(* StorageNode with its handle_client threads running side by side: start  *)
(* gives every accepted connection a thread of its own, and the threads    *)
(* share self.metadata and the storage directory without a lock.  A step   *)
(* is one statement of the handler; the thread may be switched between any *)
(* two of them.                                                            *)
(***************************************************************************)
Threads == 1 .. MaxHandlers

\* The requests that arrive: STOREs carry the digest of their payload.
RaceRequests ==
  {Request("STORE", "a", chunk_id, chunk_data, Sha256(chunk_data)) :
     chunk_id \in {0, 1}, chunk_data \in {<<0>>}}
  \cup {Request("STORE", "a", 0, <<1>>, Sha256(<<1>>)),
        Request("RETRIEVE", "a", 0, <<>>, 0),
        Request("LIST", "", 0, <<>>, 0),
        Request("DELETE", "a", 0, <<>>, 0),
        Request("PING", "", 0, <<>>, 0)}

RaceInit ==
  /\ replication_factor = 1
  /\ chunk_size = 1
  /\ ClientStart
  /\ part = NoPart
  /\ served = NotServing
  /\ threads = NoThreads
  /\ wire = NoWire

RaceOnly == UNCHANGED <<clientVars, part, served, wire>>

Thread(t) == threads.run[t]

\* The handler's first statement for a command.
Dispatch(command) ==
  CASE command = "STORE" -> "mkdir"
    [] command = "RETRIEVE" -> "found"
    [] command = "LIST" -> "items"
    [] command = "DELETE" -> "check"
    [] OTHER -> "unknown"

\* client_socket.sendall(pickle.dumps(response)), then the finally clause
\* closes the connection.
Replied(th, response) ==
  [th EXCEPT !.pc = "done", !.response = response, !.sent = @ + 1, !.closed = TRUE]

\* Mutant of Caught: an exception that escapes the operation ends the thread
\* without a response.
Uncaught(th, message) == [th EXCEPT !.pc = "done", !.closed = TRUE]

\* handle_client's except branch: an exception that escaped the operation is
\* answered with an error response.
Caught(th, message) == Replied(th, ErrorResponse(message))

\* threading.Thread(target=self.handle_client, ...).start(), recv, dispatch
Accept(t, request) ==
  /\ Thread(t).pc = "idle"
  /\ \A u \in 1..(t - 1) : Thread(u).pc # "idle"
  /\ threads' = [threads EXCEPT !.run[t] =
                   [IdleThread EXCEPT !.pc = Dispatch(request.command),
                                      !.request = request]]
  /\ UNCHANGED <<metadata, disk>>
  /\ RaceOnly

\* response = {'status': 'error', 'message': 'Unknown command'}
UnknownCommand(t) ==
  /\ Thread(t).pc = "unknown"
  /\ threads' = [threads EXCEPT !.run[t] = Replied(@, ErrorResponse("Unknown command"))]
  /\ UNCHANGED <<metadata, disk>>
  /\ RaceOnly

\* store_chunk: file_dir.mkdir(exist_ok=True)
StoreMkdir(t) ==
  /\ Thread(t).pc = "mkdir"
  /\ threads' = [threads EXCEPT !.dirs = @ \cup {Thread(t).request.filename},
                                !.run[t].pc = "write"]
  /\ UNCHANGED <<metadata, disk>>
  /\ RaceOnly

\* store_chunk: open(chunk_path, 'wb') and write; open raises when the
\* directory has been removed meanwhile.
StoreWrite(t) ==
  /\ Thread(t).pc = "write"
  /\ LET request == Thread(t).request
     IN  IF request.filename \notin threads.dirs
         THEN /\ threads' = [threads EXCEPT !.run[t] =
                               Replied(@, ErrorResponse("No such file or directory"))]
              /\ UNCHANGED disk
         ELSE /\ disk' = [disk EXCEPT ![1] =
                            StoreDisk(@, request.filename, request.chunk_id,
                                      request.chunk_data)]
              /\ threads' = [threads EXCEPT !.run[t].pc = "ensure"]
  /\ UNCHANGED metadata
  /\ RaceOnly

\* store_chunk: if filename not in self.metadata: self.metadata[filename] = {}
StoreEnsure(t) ==
  /\ Thread(t).pc = "ensure"
  /\ LET filename == Thread(t).request.filename
         md == metadata[1]
     IN  metadata' = [metadata EXCEPT ![1] =
                        [f \in DOMAIN md \cup {filename} |->
                           IF f \in DOMAIN md THEN md[f] ELSE EmptyMap]]
  /\ threads' = [threads EXCEPT !.run[t].pc = "entry"]
  /\ UNCHANGED disk
  /\ RaceOnly

\* store_chunk: self.metadata[filename][chunk_id] = (chunk_hash, path), a
\* KeyError when the file's entry has been deleted meanwhile; then the return.
StoreEntry(t) ==
  /\ Thread(t).pc = "entry"
  /\ LET request == Thread(t).request
     IN  IF request.filename \notin DOMAIN metadata[1]
         THEN /\ threads' = [threads EXCEPT !.run[t] = Replied(@, ErrorResponse("KeyError"))]
              /\ UNCHANGED metadata
         ELSE /\ metadata' = [metadata EXCEPT ![1] =
                                StoreMetadata(@, request.filename, request.chunk_id,
                                              request.chunk_hash)]
              /\ threads' = [threads EXCEPT !.run[t] =
                               Replied(@, StoreResponse(request.chunk_id))]
  /\ UNCHANGED disk
  /\ RaceOnly

\* retrieve_chunk: the membership test
RetrieveFound(t) ==
  /\ Thread(t).pc = "found"
  /\ LET request == Thread(t).request
     IN  IF \/ request.filename \notin DOMAIN metadata[1]
            \/ request.chunk_id \notin DOMAIN metadata[1][request.filename]
         THEN threads' = [threads EXCEPT !.run[t] =
                            Replied(@, ErrorResponse("Chunk not found"))]
         ELSE threads' = [threads EXCEPT !.run[t].pc = "read"]
  /\ UNCHANGED <<metadata, disk>>
  /\ RaceOnly

\* retrieve_chunk: the index lookup (a KeyError when the file's entry has
\* been deleted meanwhile), open and read, all inside its try.
RetrieveRead(t) ==
  /\ Thread(t).pc = "read"
  /\ LET request == Thread(t).request
     IN  threads' = [threads EXCEPT !.run[t] =
           Replied(@, IF request.filename \notin DOMAIN metadata[1]
                      THEN ErrorResponse("KeyError")
                      ELSE retrieve_chunk(metadata[1], disk[1], request.filename,
                                          request.chunk_id))]
  /\ UNCHANGED <<metadata, disk>>
  /\ RaceOnly

\* list_files: the iterator over self.metadata.items() is created
ListItems(t) ==
  /\ Thread(t).pc = "items"
  /\ threads' = [threads EXCEPT !.run[t] =
                   [@ EXCEPT !.pc = "next", !.todo = DOMAIN metadata[1],
                             !.size = Cardinality(DOMAIN metadata[1])]]
  /\ UNCHANGED <<metadata, disk>>
  /\ RaceOnly

\* list_files: one turn of the loop.  The iterator raises RuntimeError when
\* the dictionary's size is not the one it started with; list_files has no
\* try, so the exception reaches handle_client.
ListNext(t) ==
  /\ Thread(t).pc = "next"
  /\ LET th == Thread(t)
         md == metadata[1]
     IN  IF Cardinality(DOMAIN md) # th.size
         THEN threads' = [threads EXCEPT !.run[t] =
                            Caught(@, "dictionary changed size during iteration")]
         ELSE IF th.todo = {}
         THEN threads' = [threads EXCEPT !.run[t] =
                            Replied(@, [NoResponse EXCEPT !.status = "success"])]
         ELSE \E filename \in th.todo :
                threads' = [threads EXCEPT !.run[t] =
                   [@ EXCEPT !.todo = @ \ {filename},
                             !.files = IF filename \in DOMAIN md
                                       THEN [f \in DOMAIN @ \cup {filename} |->
                                               IF f = filename THEN DOMAIN md[f] ELSE @[f]]
                                       ELSE @]]
  /\ UNCHANGED <<metadata, disk>>
  /\ RaceOnly

\* delete_file: if filename not in self.metadata
DeleteCheck(t) ==
  /\ Thread(t).pc = "check"
  /\ IF Thread(t).request.filename \notin DOMAIN metadata[1]
     THEN threads' = [threads EXCEPT !.run[t] = Replied(@, ErrorResponse("File not found"))]
     ELSE threads' = [threads EXCEPT !.run[t].pc = "chunks"]
  /\ UNCHANGED <<metadata, disk>>
  /\ RaceOnly

\* delete_file: the iterator over self.metadata[filename].items() is created
DeleteItems(t) ==
  /\ Thread(t).pc = "chunks"
  /\ LET filename == Thread(t).request.filename
     IN  IF filename \notin DOMAIN metadata[1]
         THEN threads' = [threads EXCEPT !.run[t] = Replied(@, ErrorResponse("KeyError"))]
         ELSE threads' = [threads EXCEPT !.run[t] =
                [@ EXCEPT !.pc = "remove", !.todo = DOMAIN metadata[1][filename],
                          !.size = Cardinality(DOMAIN metadata[1][filename]),
                          !.detached = FALSE]]
  /\ UNCHANGED <<metadata, disk>>
  /\ RaceOnly

\* delete_file: one turn of the loop: the chunk file of the next index entry
\* is removed.  The iterator raises RuntimeError when a STORE has added an
\* entry to the dictionary it walks; a dictionary another DELETE has taken
\* out of self.metadata is walked to the end.
DeleteRemove(t) ==
  /\ Thread(t).pc = "remove"
  /\ LET th == Thread(t)
         filename == th.request.filename
     IN  IF ~th.detached /\ Cardinality(DOMAIN metadata[1][filename]) # th.size
         THEN /\ threads' = [threads EXCEPT !.run[t] =
                   Replied(@, ErrorResponse("dictionary changed size during iteration"))]
              /\ UNCHANGED disk
         ELSE IF th.todo = {}
         THEN /\ threads' = [threads EXCEPT !.run[t].pc = "rmdir"]
              /\ UNCHANGED disk
         ELSE \E chunk_id \in th.todo :
                /\ disk' = [disk EXCEPT ![1] =
                     [p \in DOMAIN @ \ {ChunkPath(filename, chunk_id)} |-> @[p]]]
                /\ threads' = [threads EXCEPT !.run[t].todo = @ \ {chunk_id}]
  /\ UNCHANGED metadata
  /\ RaceOnly

\* delete_file: if file_dir.exists(): file_dir.rmdir(), which raises when
\* the directory is not empty
DeleteRmdir(t) ==
  /\ Thread(t).pc = "rmdir"
  /\ LET filename == Thread(t).request.filename
     IN  IF filename \notin threads.dirs
         THEN threads' = [threads EXCEPT !.run[t].pc = "drop"]
         ELSE IF \E p \in DOMAIN disk[1] : p[1] = filename
         THEN threads' = [threads EXCEPT !.run[t] =
                            Replied(@, ErrorResponse("Directory not empty"))]
         ELSE threads' = [threads EXCEPT !.dirs = @ \ {filename}, !.run[t].pc = "drop"]
  /\ UNCHANGED <<metadata, disk>>
  /\ RaceOnly

\* delete_file: del self.metadata[filename], a KeyError when another DELETE
\* was first; then the return.
DeleteDrop(t) ==
  /\ Thread(t).pc = "drop"
  /\ LET filename == Thread(t).request.filename
         md == metadata[1]
     IN  IF filename \notin DOMAIN md
         THEN /\ threads' = [threads EXCEPT !.run[t] = Replied(@, ErrorResponse("KeyError"))]
              /\ UNCHANGED metadata
         ELSE /\ metadata' = [metadata EXCEPT ![1] = [f \in DOMAIN md \ {filename} |-> md[f]]]
              /\ threads' = [threads EXCEPT !.run =
                   [u \in Threads |->
                      IF u = t
                      THEN Replied(threads.run[u],
                                   [status |-> "success", message |-> "File deleted",
                                    chunk_data |-> <<>>, chunk_hash |-> 0])
                      ELSE IF /\ threads.run[u].pc = "remove"
                              /\ threads.run[u].request.filename = filename
                      THEN [threads.run[u] EXCEPT !.detached = TRUE]
                      ELSE threads.run[u]]]
  /\ UNCHANGED disk
  /\ RaceOnly

\* The next statement of thread t.
HandlerStep(t) ==
  \/ UnknownCommand(t)
  \/ StoreMkdir(t)
  \/ StoreWrite(t)
  \/ StoreEnsure(t)
  \/ StoreEntry(t)
  \/ RetrieveFound(t)
  \/ RetrieveRead(t)
  \/ ListItems(t)
  \/ ListNext(t)
  \/ DeleteCheck(t)
  \/ DeleteItems(t)
  \/ DeleteRemove(t)
  \/ DeleteRmdir(t)
  \/ DeleteDrop(t)

RaceNext ==
  \/ \E t \in Threads, request \in RaceRequests : Accept(t, request)
  \/ \E t \in Threads : UnknownCommand(t)
  \/ \E t \in Threads : StoreMkdir(t)
  \/ \E t \in Threads : StoreWrite(t)
  \/ \E t \in Threads : StoreEnsure(t)
  \/ \E t \in Threads : StoreEntry(t)
  \/ \E t \in Threads : RetrieveFound(t)
  \/ \E t \in Threads : RetrieveRead(t)
  \/ \E t \in Threads : ListItems(t)
  \/ \E t \in Threads : ListNext(t)
  \/ \E t \in Threads : DeleteCheck(t)
  \/ \E t \in Threads : DeleteItems(t)
  \/ \E t \in Threads : DeleteRemove(t)
  \/ \E t \in Threads : DeleteRmdir(t)
  \/ \E t \in Threads : DeleteDrop(t)

SpecRace == RaceInit /\ [][RaceNext]_vars

\* Every thread takes its next statement sooner or later: the threads wait
\* for no lock and for no other thread.
SpecRaceFair == SpecRace /\ \A t \in Threads : WF_vars(HandlerStep(t))

\* Some request has been handled and no handler is running.
AllFinished ==
  /\ \A t \in Threads : Thread(t).pc \in {"idle", "done"}
  /\ \E t \in Threads : Thread(t).pc = "done"

\* C15: node index invariant under concurrency.  When all handlers of
\* concurrently handled STORE and DELETE requests (every STORE carrying the
\* digest of its payload) have finished, every index entry names a chunk file
\* that exists and whose bytes hash to the digest recorded in the entry.
C15_IndexValidAfterRace ==
  AllFinished
    => \A filename \in DOMAIN metadata[1] :
         \A chunk_id \in DOMAIN metadata[1][filename] :
           EntryValid(metadata[1], disk[1], filename, chunk_id)

\* C16: node request isolation.  Every handled request, of any command and
\* whatever the other threads do to the index meanwhile, ends with exactly
\* one response of status success or error and with its connection closed,
\* and every accepted request is handled to the end whatever became of the
\* others.
C16_RequestIsolation ==
  /\ [](\A t \in Threads :
          /\ Thread(t).sent <= 1
          /\ Thread(t).pc = "done"
               => /\ Thread(t).sent = 1
                  /\ Thread(t).response.status \in {"success", "error"}
                  /\ Thread(t).closed)
  /\ \A t \in Threads : (Thread(t).pc # "idle") ~> (Thread(t).pc = "done")

\* A LIST was answered with an error because the index changed size under
\* its loop, and the two requests running beside it were answered as well.
C16_Witness ==
  /\ \A t \in Threads : Thread(t).pc = "done" /\ Thread(t).sent = 1
  /\ \E t \in Threads :
       /\ Thread(t).request.command = "LIST"
       /\ Thread(t).response = ErrorResponse("dictionary changed size during iteration")
  /\ \E t \in Threads :
       /\ Thread(t).request.command = "STORE"
       /\ Thread(t).response.status = "success"

\* C21: Retrieve observes a consistent snapshot of its own key.  Whatever
\* Store and Delete requests on the same (filename, chunk_id) run beside it,
\* a Retrieve answered with success carries a payload together with the
\* digest that was stored with that payload: every STORE that arrives carries
\* the digest of its own payload, so the returned digest is the digest of the
\* returned bytes, never the digest of one Store with the bytes of another.
C21_RetrieveSnapshot ==
  \A t \in Threads :
    (/\ Thread(t).pc = "done"
     /\ Thread(t).request.command = "RETRIEVE"
     /\ Thread(t).response.status = "success")
      => Thread(t).response.chunk_hash = Sha256(Thread(t).response.chunk_data)

\* C22: end-to-end integrity with a single client.  After any sequence of
\* uploads, re-uploads, deletes and downloads interleaved with outages and
\* corrupted chunk files, a download that returned True has written exactly
\* the bytes of the most recent upload of that file name.
C22_EndToEndIntegrity ==
  (Idle("download") /\ ret.val)
    => /\ ret.filename \in DOMAIN uploaded
       /\ out[ret.output_path] =
            [exists |-> TRUE, data |-> uploaded[ret.filename].content]

\* C23: descriptor soundness with a single client and no node restart.
\* Whenever the client is idle, after any sequence of uploads, re-uploads of
\* the same name and deletes, every node id a descriptor records for
\* (filename, chunk_id) leads to a server whose index holds an entry for that
\* key with the digest computed at the upload, as long as no server has been
\* restarted since that upload began.
C23_DescriptorSound ==
  pc = "idle"
    => \A filename \in DOMAIN file_mapping :
         (filename \in DOMAIN uploaded /\ uploaded[filename].restarted = {})
           => \A chunk_id \in DOMAIN file_mapping[filename] :
                \A j \in 1..Len(file_mapping[filename][chunk_id]) :
                  LET s == ServerOf(file_mapping[filename][chunk_id][j])
                      chunks == partition_file(uploaded[filename].content, chunk_size)
                  IN  /\ filename \in DOMAIN metadata[s]
                      /\ chunk_id \in DOMAIN metadata[s][filename]
                      /\ metadata[s][filename][chunk_id].chunk_hash
                           = chunks[chunk_id + 1].chunk_hash

(***************************************************************************)
(* One request and its response on a TCP connection, send_request at one   *)
(* end and handle_client at the other.  The transport delivers the bytes   *)
(* of a message in order and in pieces of any size; each end reads with    *)
(* the same loop: recv until a result is empty or shorter than the buffer. *)
(***************************************************************************)
MessageLens == 1 .. MaxMessage

FrameInit ==
  /\ replication_factor = 1
  /\ chunk_size = 1
  /\ ClientStart
  /\ part = NoPart
  /\ served = NotServing
  /\ threads = NoThreads
  /\ wire = NoWire

FrameOnly == UNCHANGED <<clientVars, metadata, disk, part, served, threads>>

\* sock.recv(4096) with arrived > 0 bytes waiting: what waits, up to the
\* buffer size.
Recv(arrived) == Min(arrived, RecvSize)

\* if len(chunk) < 4096: break
LastChunk(chunk) == chunk < RecvSize

\* pickle.loads(data) returns the message when data is all of it, and raises
\* on a proper prefix (the STOP opcode is missing) and on b"".
Loads(data, message) == data = message

\* send_request: connect, sendall(pickle.dumps(request)) of a STORE; the
\* node's accept loop starts a handle_client thread for the connection.
SendRequest(n) ==
  /\ wire.client = "idle"
  /\ wire' = [NoWire EXCEPT !.client = "recv", !.node = "recv",
                            !.request = n, !.request_flight = n]
  /\ FrameOnly

\* The transport hands the next bytes of the request to the node's socket.
DeliverRequest ==
  /\ wire.request_flight > 0
  /\ \E k \in 1 .. wire.request_flight :
       wire' = [wire EXCEPT !.request_flight = @ - k, !.request_arrived = @ + k]
  /\ FrameOnly

\* handle_client: chunk = client_socket.recv(4096); data += chunk; leave the
\* loop when the chunk is shorter than the buffer.
NodeRecv ==
  /\ wire.node = "recv"
  /\ wire.request_arrived > 0
  /\ LET chunk == Recv(wire.request_arrived)
     IN  wire' = [wire EXCEPT !.request_arrived = @ - chunk,
                              !.node_data = @ + chunk,
                              !.node = IF LastChunk(chunk) THEN "loads" ELSE "recv"]
  /\ FrameOnly

\* handle_client: recv returns b"" once the client has closed and nothing is
\* left to read: if not chunk: break.
NodeRecvClosed ==
  /\ wire.node = "recv"
  /\ wire.request_arrived = 0
  /\ wire.request_flight = 0
  /\ wire.client_closed
  /\ wire' = [wire EXCEPT !.node = "loads"]
  /\ FrameOnly

\* handle_client after the loop: pickle.loads(data); the STORE is carried
\* out and answered with success, or loads raised and the except branch
\* answers with an error; sendall of the pickled response (lost when the
\* client has closed), and the finally clause closes the connection.
NodeRespond ==
  /\ wire.node = "loads"
  /\ \E m \in MessageLens :
       LET complete == Loads(wire.node_data, wire.request)
       IN  wire' = [wire EXCEPT !.node = "done",
                                !.acted = complete,
                                !.status = IF complete THEN "success" ELSE "error",
                                !.response = m,
                                !.response_flight = IF wire.client_closed THEN 0 ELSE m,
                                !.node_closed = TRUE]
  /\ FrameOnly

\* The transport hands the next bytes of the response to the client's socket.
DeliverResponse ==
  /\ wire.response_flight > 0
  /\ \E k \in 1 .. wire.response_flight :
       wire' = [wire EXCEPT !.response_flight = @ - k, !.response_arrived = @ + k]
  /\ FrameOnly

\* send_request after its loop: sock.close(); return pickle.loads(data), or
\* the except branch's communication error when loads raises.
ClientReturn(w, data) ==
  [w EXCEPT !.client = "done", !.client_closed = TRUE,
            !.returned = IF Loads(data, w.response) THEN w.status ELSE "error"]

\* send_request: chunk = sock.recv(4096); data += chunk; leave the loop when
\* the chunk is shorter than the buffer.
ClientRecv ==
  /\ wire.client = "recv"
  /\ wire.response_arrived > 0
  /\ LET chunk == Recv(wire.response_arrived)
         read == [wire EXCEPT !.response_arrived = @ - chunk,
                              !.client_data = @ + chunk]
     IN  wire' = IF LastChunk(chunk) THEN ClientReturn(read, read.client_data)
                 ELSE read
  /\ FrameOnly

\* send_request: recv returns b"" once the node has closed and nothing is
\* left to read.
ClientRecvClosed ==
  /\ wire.client = "recv"
  /\ wire.response_arrived = 0
  /\ wire.response_flight = 0
  /\ wire.node_closed
  /\ wire' = ClientReturn(wire, wire.client_data)
  /\ FrameOnly

\* send_request: sock.settimeout(5.0) ends a recv for which nothing comes;
\* nothing comes while the node itself sits in recv with the whole request
\* read.  The except branch returns a communication error and the socket is
\* closed with the call.
ClientTimeout ==
  /\ wire.client = "recv"
  /\ wire.node = "recv"
  /\ wire.request_flight = 0
  /\ wire.request_arrived = 0
  /\ wire' = [wire EXCEPT !.client = "done", !.client_closed = TRUE,
                          !.returned = "error"]
  /\ FrameOnly

FrameNext ==
  \/ \E n \in MessageLens : SendRequest(n)
  \/ DeliverRequest
  \/ NodeRecv
  \/ NodeRecvClosed
  \/ NodeRespond
  \/ DeliverResponse
  \/ ClientRecv
  \/ ClientRecvClosed
  \/ ClientTimeout

SpecFrame == FrameInit /\ [][FrameNext]_vars

\* C24: message framing.  However the transport splits a request or a
\* response into recv results, the receiver decodes a message only after it
\* has received all the bytes that were sent, and when both ends are done
\* the node has carried out the STORE exactly when the client has received
\* its acknowledgement.
C24_MessageFraming ==
  /\ wire.node \in {"loads", "done"} => wire.node_data = wire.request
  /\ (wire.client = "done" /\ wire.returned = "success")
       => wire.client_data = wire.response
  /\ (wire.client = "done" /\ wire.node = "done")
       => (wire.acted <=> wire.returned = "success")

=============================================================================
